---- MODULE Spec2Model ----
(***************************************************************************)
(* Verification model of the rl_agent crate (src/src/lib.rs) and of the    *)
(* step loop of its driver (src/src/main.rs).                              *)
(*                                                                         *)
(*   Spec       the Environment: construction (new, new_randomized with    *)
(*              the random_grid placement loop) and its public methods     *)
(*              create_percept, calculate_reward, transition_state.        *)
(*   SpecMap    the loops of generate_percept_map, one insertion a step.   *)
(*   SpecRobot  the Robot: new (which runs generate_percept_map),          *)
(*              select_action, reward.                                     *)
(*   SpecRepeat the Robot given one choice and then the same reward, with  *)
(*              gamma = 0, again and again.                                *)
(*   SpecFn     the pure functions, applied to drawn arguments: the two    *)
(*              Action/usize conversions and the loop of                   *)
(*              max_action_for_percept over one row of q_matrix.           *)
(*                                                                         *)
(* f32 values are modelled in binary fixed point: an integer v stands for  *)
(* v / 2^FracBits, and a product is rounded to the nearest such value,     *)
(* ties to even.                                                           *)
(***************************************************************************)
EXTENDS Integers, Sequences, FiniteSets, TLC

-----------------------------------------------------------------------------
(* Bounds of the exploration.                                              *)

MaxDim == 2
MaxCans == 2
MaxCrash == 2
MaxUpdates == 2
MaxRepeat == 12
MaxIndex == 5
MaxRowValue == 1
FracBits == 4

-----------------------------------------------------------------------------
(* LocationValue, Action.                                                  *)

LocationValue == {"Empty", "Can", "Wall"}

all_locations == <<"Empty", "Can", "Wall">>

Action == {"MoveNorth", "MoveSouth", "MoveEast", "MoveWest", "PickUpCan"}

all_actions == <<"MoveNorth", "MoveSouth", "MoveEast", "MoveWest", "PickUpCan">>

Moves == {"MoveNorth", "MoveSouth", "MoveEast", "MoveWest"}

-----------------------------------------------------------------------------
(* The Environment.                                                        *)

VARIABLES
    grid_dimension,         \* Environment.grid_dimension
    initial_number_of_cans, \* Environment.initial_number_of_cans
    robot_coordinates,      \* Environment.robot_coordinates, <<x, y>>
    crash_count,            \* Environment.crash_count
    grid,                   \* Environment.grid, grid[x][y]
    pc,                     \* "start", "random_grid" (inside its loop), "ready"
    nr_coordinates,         \* new_randomized: locals (x, y)
    rg_dimension,           \* random_grid: parameter dimension
    number_of_cans,         \* random_grid: parameter number_of_cans
    rg_grid,                \* random_grid: local grid
    cans_assigned,          \* random_grid: local cans_assigned
    already_assigned,       \* random_grid: local already_assigned
    p,                      \* main: the percept create_percept returned for this state
    call,                   \* the last constructor or &mut self call, and what it returned
    pre,                    \* the Environment as the last calculate_reward found it
    streak,                 \* consecutive reward/transition pairs of one action
    n_placed,               \* cells random_grid set to Can
    n_pickups               \* transition_state(PickUpCan) calls made on a Can cell

envVars == <<grid_dimension, initial_number_of_cans, robot_coordinates,
             crash_count, grid>>
rgVars == <<nr_coordinates, rg_dimension, number_of_cans, rg_grid,
            cans_assigned, already_assigned>>
logVars == <<p, call, pre, streak, n_placed, n_pickups>>

vars == <<envVars, pc, rgVars, logVars>>

Coords(d) == (0 .. d - 1) \X (0 .. d - 1)

\* vec![vec![LocationValue::Empty; dimension]; dimension]
EmptyGrid(d) == [x \in 0 .. d - 1 |-> [y \in 0 .. d - 1 |-> "Empty"]]

NoPercept == [current |-> "-", north |-> "-", south |-> "-", east |-> "-", west |-> "-"]
NoCall == [op |-> "none", a |-> "-", paired |-> FALSE, ret |-> 0]
NoPre == [set |-> FALSE, coords |-> <<0, 0>>, crash_count |-> 0, grid |-> <<>>]
NoStreak == [a |-> "-", n |-> 0, cc0 |-> 0, cell |-> "-", prev_cell |-> "-"]

\* Environment::count_cans: the fold over rows and cells, Can counting 1.
count_cans(g) ==
    Cardinality(UNION {{<<x, y>> : y \in {c \in DOMAIN g[x] : g[x][c] = "Can"}} :
                       x \in DOMAIN g})

\* Environment::create_percept
create_percept(g, xy, d) ==
    LET x == xy[1]
        y == xy[2]
    IN  [current |-> g[x][y],
         south   |-> IF x = 0 THEN "Wall" ELSE g[x - 1][y],
         north   |-> IF x = d - 1 THEN "Wall" ELSE g[x + 1][y],
         west    |-> IF y = 0 THEN "Wall" ELSE g[x][y - 1],
         east    |-> IF y = d - 1 THEN "Wall" ELSE g[y][y + 1]]

\* crash with the north and south tests exchanged
crash_swapped(a, xy, d) ==
    LET x == xy[1]
        y == xy[2]
    IN  \/ (a = "MoveEast" /\ y >= d - 1)
        \/ (a = "MoveWest" /\ y = 0)
        \/ (a = "MoveNorth" /\ x = 0)
        \/ (a = "MoveSouth" /\ x >= d - 1)

\* crash with > for >= at the north and east edges
crash_strict(a, xy, d) ==
    LET x == xy[1]
        y == xy[2]
    IN  \/ (a = "MoveEast" /\ y > d - 1)
        \/ (a = "MoveWest" /\ y = 0)
        \/ (a = "MoveNorth" /\ x > d - 1)
        \/ (a = "MoveSouth" /\ x = 0)

\* crash with the west move tested against the east edge
crash_asym(a, xy, d) ==
    LET x == xy[1]
        y == xy[2]
    IN  \/ (a = "MoveEast" /\ y >= d - 1)
        \/ (a = "MoveWest" /\ y >= d - 1)
        \/ (a = "MoveNorth" /\ x >= d - 1)
        \/ (a = "MoveSouth" /\ x = 0)

\* Environment::crash
crash(a, xy, d) ==
    LET x == xy[1]
        y == xy[2]
    IN  \/ (a = "MoveEast" /\ y >= d - 1)
        \/ (a = "MoveWest" /\ y = 0)
        \/ (a = "MoveNorth" /\ x >= d - 1)
        \/ (a = "MoveSouth" /\ x = 0)

\* calculate_reward with no penalty for a pickup on an empty cell
RewardValue_nopenalty(a, g, xy, d) ==
    IF a = "PickUpCan"
    THEN IF g[xy[1]][xy[2]] = "Can" THEN 10 ELSE 0
    ELSE IF crash(a, xy, d) THEN -5 ELSE 0

\* Environment::calculate_reward: the value returned
RewardValue(a, g, xy, d) ==
    IF a = "PickUpCan"
    THEN IF g[xy[1]][xy[2]] = "Can" THEN 10 ELSE -1
    ELSE IF crash(a, xy, d) THEN -5 ELSE 0

\* Environment::calculate_reward: crash_count after the call
RewardCrashCount(a, cc, xy, d) ==
    IF a # "PickUpCan" /\ crash(a, xy, d) THEN cc + 1 ELSE cc

\* transition_state with the north and east guards off by one
MoveRobot_offbyone(a, xy, d) ==
    LET x == xy[1]
        y == xy[2]
    IN  CASE a = "MoveNorth" -> IF x <= d - 1 THEN <<x + 1, y>> ELSE xy
          [] a = "MoveSouth" -> IF x > 0 THEN <<x - 1, y>> ELSE xy
          [] a = "MoveEast"  -> IF y <= d - 1 THEN <<x, y + 1>> ELSE xy
          [] a = "MoveWest"  -> IF y > 0 THEN <<x, y - 1>> ELSE xy
          [] OTHER -> xy

\* Environment::transition_state: robot_coordinates after the call
MoveRobot(a, xy, d) ==
    LET x == xy[1]
        y == xy[2]
    IN  CASE a = "MoveNorth" -> IF x < d - 1 THEN <<x + 1, y>> ELSE xy
          [] a = "MoveSouth" -> IF x > 0 THEN <<x - 1, y>> ELSE xy
          [] a = "MoveEast"  -> IF y < d - 1 THEN <<x, y + 1>> ELSE xy
          [] a = "MoveWest"  -> IF y > 0 THEN <<x, y - 1>> ELSE xy
          [] OTHER -> xy

\* transition_state with a pickup that stores Wall in the cell
PickUp_wall(a, g, xy) ==
    IF a = "PickUpCan" /\ g[xy[1]][xy[2]] = "Can"
    THEN [g EXCEPT ![xy[1]][xy[2]] = "Wall"]
    ELSE g

\* transition_state that collects the can under the robot whatever the action
PickUp_anyaction(a, g, xy) ==
    IF g[xy[1]][xy[2]] = "Can"
    THEN [g EXCEPT ![xy[1]][xy[2]] = "Empty"]
    ELSE g

\* transition_state with a pickup that leaves the can on the grid
PickUp_keeps(a, g, xy) == g

\* Environment::transition_state: grid after the call
PickUp(a, g, xy) ==
    IF a = "PickUpCan" /\ g[xy[1]][xy[2]] = "Can"
    THEN [g EXCEPT ![xy[1]][xy[2]] = "Empty"]
    ELSE g

(* What the claims measure the code against: the cell one step away in the *)
(* direction of a movement action, and whether it lies off the grid.       *)
Neighbour(a, xy) ==
    CASE a = "MoveNorth" -> <<xy[1] + 1, xy[2]>>
      [] a = "MoveSouth" -> <<xy[1] - 1, xy[2]>>
      [] a = "MoveEast"  -> <<xy[1], xy[2] + 1>>
      [] a = "MoveWest"  -> <<xy[1], xy[2] - 1>>
      [] OTHER -> xy

CrossesEdge(a, xy, d) == a \in Moves /\ Neighbour(a, xy) \notin Coords(d)

-----------------------------------------------------------------------------
(* generate_percept_map.                                                   *)

VARIABLES
    gm_loop,    \* generate_percept_map: positions of the five nested loops
    index,      \* generate_percept_map: local index
    out         \* generate_percept_map: local out

mapVars == <<gm_loop, index, out>>

\* the five loops before their first iteration: north, south, east, west, current
LoopStart == <<1, 1, 1, 1, 1>>
LoopDone == <<>>

\* the loop body with current taken from the north loop
LoopPercept_dup(l) ==
    [north   |-> all_locations[l[1]],
     south   |-> all_locations[l[2]],
     east    |-> all_locations[l[3]],
     west    |-> all_locations[l[4]],
     current |-> all_locations[l[1]]]

\* the Percept built in the innermost loop body
LoopPercept(l) ==
    [north   |-> all_locations[l[1]],
     south   |-> all_locations[l[2]],
     east    |-> all_locations[l[3]],
     west    |-> all_locations[l[4]],
     current |-> all_locations[l[5]]]

\* the five nested for loops: the innermost advances first
LoopNext(l) ==
    LET n == Len(all_locations)
    IN  IF l[5] < n THEN [l EXCEPT ![5] = @ + 1]
        ELSE IF l[4] < n THEN [l EXCEPT ![4] = @ + 1, ![5] = 1]
        ELSE IF l[3] < n THEN [l EXCEPT ![3] = @ + 1, ![4] = 1, ![5] = 1]
        ELSE IF l[2] < n THEN [l EXCEPT ![2] = @ + 1, ![3] = 1, ![4] = 1, ![5] = 1]
        ELSE IF l[1] < n THEN [l EXCEPT ![1] = @ + 1, ![2] = 1, ![3] = 1, ![4] = 1, ![5] = 1]
        ELSE LoopDone

\* HashMap::insert
Insert(m, k, v) == [q \in DOMAIN m \cup {k} |-> IF q = k THEN v ELSE m[q]]

EmptyMap == [q \in {} |-> 0]

-----------------------------------------------------------------------------
(* The Robot.                                                              *)

VARIABLES
    previous_choice,    \* Robot.previous_choice: None or <<percept, action>>
    q_matrix,           \* Robot.q_matrix, q_matrix[percept index][action index]
    epsilon,            \* Robot.epsilon
    percept_map,        \* Robot.percept_map
    r_pc,               \* "start" before Robot::new, then "ready"
    r_call,             \* the last call made on the Robot
    last_select,        \* the percept given to, and the action returned by, the
                        \* last select_action
    rep,                \* the reward and eta of a repeated update
    n_updates           \* reward calls that wrote q_matrix

robotVars == <<previous_choice, q_matrix, epsilon, percept_map,
               r_pc, r_call, last_select, rep, n_updates>>

QScale == 2 ^ FracBits

\* n / d rounded to the nearest integer, ties to even (d > 0)
RoundDiv(n, d) ==
    LET q == n \div d
        r == n % d
    IN  IF 2 * r < d THEN q
        ELSE IF 2 * r > d THEN q + 1
        ELSE IF q % 2 = 0 THEN q ELSE q + 1

\* f32 multiplication
FMul(a, b) == RoundDiv(a * b, QScale)

None == <<>>

\* 3_usize.pow(5) and number_of_actions in Robot::new
number_of_possible_percepts == 3 ^ 5
number_of_actions == 5

\* From<usize> with the arm for 3 missing
ActionFromIndex_missing(i) ==
    CASE i = 0 -> "MoveNorth"
      [] i = 1 -> "MoveSouth"
      [] i = 2 -> "MoveEast"
      [] OTHER -> "PickUpCan"

\* impl From<usize> for Action
ActionFromIndex(i) ==
    CASE i = 0 -> "MoveNorth"
      [] i = 1 -> "MoveSouth"
      [] i = 2 -> "MoveEast"
      [] i = 3 -> "MoveWest"
      [] OTHER -> "PickUpCan"

\* impl From<Action> for usize
IndexFromAction(a) ==
    CASE a = "MoveNorth" -> 0
      [] a = "MoveSouth" -> 1
      [] a = "MoveEast"  -> 2
      [] a = "MoveWest"  -> 3
      [] a = "PickUpCan" -> 4

\* the fold forgetting what it found before the last pair
RECURSIVE SameFold_last(_, _, _)
SameFold_last(actions, i, acc) ==
    IF i = number_of_actions THEN acc
    ELSE SameFold_last(actions, i + 1, <<actions[i], acc[1] = actions[i]>>)

\* Robot::all_actions_same: the fold over the row, acc = (previous score, same so far)
RECURSIVE SameFold(_, _, _)
SameFold(actions, i, acc) ==
    IF i = number_of_actions THEN acc
    ELSE SameFold(actions, i + 1, <<actions[i], acc[2] /\ acc[1] = actions[i]>>)

all_actions_same(q, pm, pt) ==
    LET actions == q[pm[pt]]
    IN  SameFold(actions, 0, <<actions[0], TRUE>>)[2]

\* the loop keeping only the first index that attains the maximum
RECURSIVE MaxFold_first(_, _, _)
MaxFold_first(actions, i, acc) ==
    IF i = number_of_actions THEN acc
    ELSE MaxFold_first(actions, i + 1,
                       IF actions[i] > acc[2] \/ i = 0 THEN <<(<<i>>), actions[i]>>
                       ELSE acc)

\* Robot::max_action_for_percept: the loop, acc = <<candidates, max_score>>
RECURSIVE MaxFold(_, _, _)
MaxFold(actions, i, acc) ==
    IF i = number_of_actions THEN acc
    ELSE MaxFold(actions, i + 1,
                 IF actions[i] = acc[2] THEN <<Append(acc[1], i), acc[2]>>
                 ELSE IF actions[i] > acc[2] THEN <<(<<i>>), actions[i]>>
                 ELSE acc)

\* Robot::max_action_for_percept: from max_score = actions[0] to the end of the loop
MaxOfRow(actions) == MaxFold(actions, 0, <<(<<>>), actions[0]>>)

\* Robot::max_action_for_percept: candidates and max_score after the loop
MaxCandidates(q, pm, pt) == MaxOfRow(q[pm[pt]])

\* new_value without the - current_q
NewValue_nodiff(current_q, reward, eta, gamma, max_aprime_q) ==
    current_q + FMul(eta, reward + FMul(gamma, max_aprime_q))

\* Robot::reward: new_value
NewValue(current_q, reward, eta, gamma, max_aprime_q) ==
    current_q + FMul(eta, reward + FMul(gamma, max_aprime_q) - current_q)

\* reward writing the row of resulting_percept
RewardedMatrix_next(q, pm, choice, amount, eta, gamma, resulting_percept) ==
    IF choice # None
    THEN LET percept_index == pm[resulting_percept]
             action_index == IndexFromAction(choice[2])
             current_q == q[percept_index][action_index]
             max_aprime_q == MaxCandidates(q, pm, resulting_percept)[2]
         IN  [q EXCEPT ![percept_index][action_index] =
                 NewValue(current_q, amount, eta, gamma, max_aprime_q)]
    ELSE q

\* reward taking a default choice, index 0 and MoveNorth, when none is pending
RewardedMatrix_default(q, pm, choice, amount, eta, gamma, resulting_percept) ==
    LET percept_index == IF choice # None THEN pm[choice[1]] ELSE 0
        action_index == IF choice # None THEN IndexFromAction(choice[2]) ELSE 0
        current_q == q[percept_index][action_index]
        max_aprime_q == MaxCandidates(q, pm, resulting_percept)[2]
    IN  [q EXCEPT ![percept_index][action_index] =
            NewValue(current_q, amount, eta, gamma, max_aprime_q)]

\* Robot::reward: q_matrix after the call, choice being previous_choice
RewardedMatrix(q, pm, choice, amount, eta, gamma, resulting_percept) ==
    IF choice # None
    THEN LET percept_index == pm[choice[1]]
             action_index == IndexFromAction(choice[2])
             current_q == q[percept_index][action_index]
             max_aprime_q == MaxCandidates(q, pm, resulting_percept)[2]
         IN  [q EXCEPT ![percept_index][action_index] =
                 NewValue(current_q, amount, eta, gamma, max_aprime_q)]
    ELSE q

(* The values the driver and the random number generator are let to supply. *)
AllPercepts == [current : LocationValue, north : LocationValue, south : LocationValue,
                east : LocationValue, west : LocationValue]

SomePercepts ==
    {[current |-> "Empty", north |-> "Empty", south |-> "Empty", east |-> "Empty", west |-> "Empty"],
     [current |-> "Can", north |-> "Empty", south |-> "Wall", east |-> "Can", west |-> "Wall"]}

EpsilonValues == {0, QScale}
RDraws == {0, QScale - 1}
RewardValues == {10 * QScale}
RepeatRewardValues == {10 * QScale, -5 * QScale}
EtaValues == {QScale \div 2}
GammaValues == {0, QScale \div 2}
RepeatEtaValues == {QScale \div 4, QScale \div 2, (3 * QScale) \div 4}

NoRep == [amount |-> 0, eta |-> 0, before |-> 0]

NoRobotCall == [op |-> "none", wrote |-> FALSE]

-----------------------------------------------------------------------------
(* The pure functions.                                                     *)

VARIABLES
    fn      \* the last application: the function, its argument, its result

fnVars == <<fn>>

NoFn == [op |-> "none", arg |-> 0, res |-> 0]

\* the usize values and the rows of f32 values the functions are applied to
Indices == 0 .. MaxIndex
Rows == [0 .. number_of_actions - 1 -> (0 - MaxRowValue) .. MaxRowValue]

-----------------------------------------------------------------------------
(* Initial state: nothing constructed yet.                                 *)

allVars == <<vars, mapVars, robotVars, fnVars>>

\* #[derive(Default)] Environment and Robot, generate_percept_map at its entry
Init ==
    /\ fn = NoFn
    /\ gm_loop = LoopStart
    /\ index = 0
    /\ out = EmptyMap
    /\ previous_choice = None
    /\ q_matrix = <<>>
    /\ epsilon = 0
    /\ percept_map = EmptyMap
    /\ r_pc = "start"
    /\ r_call = NoRobotCall
    /\ last_select = None
    /\ rep = NoRep
    /\ n_updates = 0
    /\ grid_dimension = 0
    /\ initial_number_of_cans = 0
    /\ robot_coordinates = <<0, 0>>
    /\ crash_count = 0
    /\ grid = <<>>
    /\ pc = "start"
    /\ nr_coordinates = <<0, 0>>
    /\ rg_dimension = 0
    /\ number_of_cans = 0
    /\ rg_grid = <<>>
    /\ cans_assigned = 0
    /\ already_assigned = {}
    /\ p = NoPercept
    /\ call = NoCall
    /\ pre = NoPre
    /\ streak = NoStreak
    /\ n_placed = 0
    /\ n_pickups = 0

\* Environment::new
New(d, n, xy) ==
    /\ UNCHANGED <<mapVars, robotVars, fnVars>>
    /\ pc = "start"
    /\ grid_dimension' = d
    /\ initial_number_of_cans' = n
    /\ robot_coordinates' = xy
    /\ crash_count' = 0
    /\ grid' = EmptyGrid(d)
    /\ pc' = "ready"
    /\ call' = [NoCall EXCEPT !.op = "new"]
    /\ UNCHANGED <<rgVars, p, pre, streak, n_placed, n_pickups>>

\* Environment::new_randomized up to the first test of random_grid's loop
NewRandomized(d, n, xy) ==
    /\ UNCHANGED <<mapVars, robotVars, fnVars>>
    /\ pc = "start"
    /\ nr_coordinates' = xy
    /\ rg_dimension' = d
    /\ number_of_cans' = n
    /\ rg_grid' = EmptyGrid(d)
    /\ cans_assigned' = 0
    /\ already_assigned' = {}
    /\ pc' = "random_grid"
    /\ UNCHANGED <<envVars, logVars>>

\* the loop iteration without the test of already_assigned
RandomGridLoop_nocheck(xy) ==
    /\ UNCHANGED <<mapVars, robotVars, fnVars>>
    /\ pc = "random_grid"
    /\ cans_assigned < number_of_cans
    /\ rg_grid' = [rg_grid EXCEPT ![xy[1]][xy[2]] = "Can"]
    /\ already_assigned' = already_assigned \cup {xy}
    /\ cans_assigned' = cans_assigned + 1
    /\ n_placed' = n_placed + 1
    /\ UNCHANGED <<envVars, pc, nr_coordinates, rg_dimension, number_of_cans,
                   p, call, pre, streak, n_pickups>>

\* random_grid: one iteration of the while loop, xy the pair drawn
RandomGridLoop(xy) ==
    /\ UNCHANGED <<mapVars, robotVars, fnVars>>
    /\ pc = "random_grid"
    /\ cans_assigned < number_of_cans
    /\ IF xy \notin already_assigned
       THEN /\ rg_grid' = [rg_grid EXCEPT ![xy[1]][xy[2]] = "Can"]
            /\ already_assigned' = already_assigned \cup {xy}
            /\ cans_assigned' = cans_assigned + 1
            /\ n_placed' = n_placed + 1
       ELSE UNCHANGED <<rg_grid, already_assigned, cans_assigned, n_placed>>
    /\ UNCHANGED <<envVars, pc, nr_coordinates, rg_dimension, number_of_cans,
                   p, call, pre, streak, n_pickups>>

\* random_grid returns, its locals and those of new_randomized are dropped,
\* and new_randomized builds the Environment
RandomGridReturn ==
    /\ UNCHANGED <<mapVars, robotVars, fnVars>>
    /\ pc = "random_grid"
    /\ ~(cans_assigned < number_of_cans)
    /\ grid_dimension' = rg_dimension
    /\ initial_number_of_cans' = number_of_cans
    /\ robot_coordinates' = nr_coordinates
    /\ crash_count' = 0
    /\ grid' = rg_grid
    /\ pc' = "ready"
    /\ call' = [NoCall EXCEPT !.op = "new_randomized"]
    /\ nr_coordinates' = <<0, 0>>
    /\ rg_dimension' = 0
    /\ number_of_cans' = 0
    /\ rg_grid' = <<>>
    /\ cans_assigned' = 0
    /\ already_assigned' = {}
    /\ UNCHANGED <<p, pre, streak, n_placed, n_pickups>>

\* Environment::create_percept (&self)
CreatePercept ==
    /\ UNCHANGED <<mapVars, robotVars, fnVars>>
    /\ pc = "ready"
    /\ p' = create_percept(grid, robot_coordinates, grid_dimension)
    /\ UNCHANGED <<envVars, pc, rgVars, call, pre, streak,
                   n_placed, n_pickups>>

\* Environment::calculate_reward
CalculateReward(a) ==
    /\ UNCHANGED <<mapVars, robotVars, fnVars>>
    /\ pc = "ready"
    /\ crash(a, robot_coordinates, grid_dimension) => crash_count < MaxCrash
    /\ crash_count' = RewardCrashCount(a, crash_count, robot_coordinates, grid_dimension)
    /\ call' = [op |-> "calculate_reward", a |-> a, paired |-> FALSE,
                ret |-> RewardValue(a, grid, robot_coordinates, grid_dimension)]
    /\ pre' = [set |-> TRUE, coords |-> robot_coordinates,
               crash_count |-> crash_count, grid |-> grid]
    /\ streak' = IF call.op = "transition_state" /\ call.paired /\ streak.a = a
                 THEN streak ELSE NoStreak
    /\ UNCHANGED <<grid_dimension, initial_number_of_cans, robot_coordinates, grid,
                   pc, rgVars, p, n_placed, n_pickups>>

\* Environment::transition_state; paired when it follows calculate_reward of
\* the same action, as in the step loop of main, call.ret then being the
\* reward_amount of that step
TransitionState(a) ==
    LET paired == call.op = "calculate_reward" /\ call.a = a
        cell == grid[robot_coordinates[1]][robot_coordinates[2]]
        crossing == CrossesEdge(a, robot_coordinates, grid_dimension)
    IN  /\ UNCHANGED <<mapVars, robotVars, fnVars>>
        /\ pc = "ready"
        /\ robot_coordinates' = MoveRobot(a, robot_coordinates, grid_dimension)
        /\ grid' = PickUp(a, grid, robot_coordinates)
        /\ p' = NoPercept
        /\ call' = [op |-> "transition_state", a |-> a, paired |-> paired,
                    ret |-> IF paired THEN call.ret ELSE 0]
        /\ pre' = IF paired THEN pre ELSE NoPre
        /\ streak' = IF paired /\ (crossing \/ a = "PickUpCan")
                     THEN IF streak.a = a
                          THEN [streak EXCEPT !.n = IF a = "PickUpCan" THEN 2 ELSE @ + 1,
                                              !.cell = cell,
                                              !.prev_cell = streak.cell]
                          ELSE [a |-> a, n |-> 1, cc0 |-> pre.crash_count,
                                cell |-> cell, prev_cell |-> "-"]
                     ELSE NoStreak
        /\ n_pickups' = IF a = "PickUpCan" /\ cell = "Can"
                        THEN n_pickups + 1 ELSE n_pickups
        /\ UNCHANGED <<grid_dimension, initial_number_of_cans, crash_count,
                       pc, rgVars, n_placed>>

Next ==
    \/ \E d \in 1 .. MaxDim, n \in 0 .. MaxCans : \E xy \in Coords(d) : New(d, n, xy)
    \/ \E d \in 1 .. MaxDim, n \in 0 .. MaxCans : \E xy \in Coords(d) : NewRandomized(d, n, xy)
    \/ \E xy \in Coords(rg_dimension) : RandomGridLoop(xy)
    \/ RandomGridReturn
    \/ CreatePercept
    \/ \E a \in Action : CalculateReward(a)
    \/ \E a \in Action : TransitionState(a)

Spec == Init /\ [][Next]_allVars

-----------------------------------------------------------------------------
(* generate_percept_map, one iteration of the innermost loop a step.       *)

GenerateInsert ==
    /\ gm_loop # LoopDone
    /\ out' = Insert(out, LoopPercept(gm_loop), index)
    /\ index' = index + 1
    /\ gm_loop' = LoopNext(gm_loop)
    /\ UNCHANGED <<vars, robotVars, fnVars>>

NextMap == GenerateInsert

SpecMap == Init /\ [][NextMap]_allVars

-----------------------------------------------------------------------------
(* The Robot's methods.                                                    *)

\* Robot::new, once its call of generate_percept_map has returned out, which
\* is moved into the Robot
RobotNew(eps) ==
    /\ r_pc = "start"
    /\ gm_loop = LoopDone
    /\ previous_choice' = None
    /\ q_matrix' = [i \in 0 .. number_of_possible_percepts - 1 |->
                        [j \in 0 .. number_of_actions - 1 |-> 0]]
    /\ epsilon' = eps
    /\ percept_map' = out
    /\ out' = EmptyMap
    /\ r_pc' = "ready"
    /\ r_call' = [NoRobotCall EXCEPT !.op = "new"]
    /\ UNCHANGED <<last_select, rep, n_updates, vars, gm_loop, index, fnVars>>

\* Robot::select_action with random_action and max_action_for_percept; r is
\* the draw of select_action, draw that of random_action or of
\* max_action_for_percept, whichever is called
SelectAction(pt, r, draw) ==
    LET candidates == MaxCandidates(q_matrix, percept_map, pt)[1]
        explore == epsilon > r \/ all_actions_same(q_matrix, percept_map, pt)
        chosen == IF explore
                  THEN ActionFromIndex(draw)
                  ELSE ActionFromIndex(candidates[draw + 1])
    IN  /\ r_pc = "ready"
        /\ draw < (IF explore THEN 5 ELSE Len(candidates))
        /\ previous_choice' = <<pt, chosen>>
        /\ r_call' = [op |-> "select_action", wrote |-> FALSE]
        /\ last_select' = <<pt, chosen>>
        /\ UNCHANGED <<q_matrix, epsilon, percept_map, r_pc, rep, n_updates,
                       vars, mapVars, fnVars>>

\* Robot::reward
Reward(amount, eta, gamma, resulting_percept) ==
    /\ r_pc = "ready"
    /\ previous_choice # None => n_updates < MaxUpdates
    /\ q_matrix' = RewardedMatrix(q_matrix, percept_map, previous_choice,
                                  amount, eta, gamma, resulting_percept)
    /\ n_updates' = IF previous_choice # None THEN n_updates + 1 ELSE n_updates
    /\ r_call' = [op |-> "reward", wrote |-> previous_choice # None]
    /\ UNCHANGED <<previous_choice, epsilon, percept_map, r_pc, last_select, rep,
                   vars, mapVars, fnVars>>

NextRobot ==
    \/ GenerateInsert
    \/ \E eps \in EpsilonValues : RobotNew(eps)
    \/ \E pt \in SomePercepts, r \in RDraws, draw \in 0 .. 4 :
          SelectAction(pt, r, draw)
    \/ \E amount \in RewardValues, eta \in EtaValues, gamma \in GammaValues,
          resulting_percept \in SomePercepts :
          Reward(amount, eta, gamma, resulting_percept)

SpecRobot == Init /\ [][NextRobot]_allVars

-----------------------------------------------------------------------------
(* The Robot given one choice, then the same reward again and again.       *)

\* the first select_action of a Robot
SelectFirst(pt, r, draw) ==
    /\ previous_choice = None
    /\ SelectAction(pt, r, draw)

\* Robot::reward with gamma = 0.0 and the reward_amount and eta of the call before
RewardAgain(amount, eta, resulting_percept) ==
    /\ r_pc = "ready"
    /\ previous_choice # None
    /\ n_updates < MaxRepeat
    /\ rep = NoRep \/ (rep.amount = amount /\ rep.eta = eta)
    /\ q_matrix' = RewardedMatrix(q_matrix, percept_map, previous_choice,
                                  amount, eta, 0, resulting_percept)
    /\ n_updates' = n_updates + 1
    /\ r_call' = [op |-> "reward", wrote |-> TRUE]
    /\ rep' = [amount |-> amount, eta |-> eta,
               before |-> q_matrix[percept_map[previous_choice[1]]]
                                  [IndexFromAction(previous_choice[2])]]
    /\ UNCHANGED <<previous_choice, epsilon, percept_map, r_pc, last_select,
                   vars, mapVars, fnVars>>

NextRepeat ==
    \/ GenerateInsert
    \/ \E eps \in EpsilonValues : RobotNew(eps)
    \/ \E pt \in SomePercepts, r \in RDraws, draw \in 0 .. 4 :
          SelectFirst(pt, r, draw)
    \/ \E amount \in RepeatRewardValues, eta \in RepeatEtaValues,
          resulting_percept \in SomePercepts :
          RewardAgain(amount, eta, resulting_percept)

SpecRepeat == Init /\ [][NextRepeat]_allVars

-----------------------------------------------------------------------------
(* The pure functions, each run applying one of them once to a drawn        *)
(* argument.                                                               *)

\* usize::from(action)
UsizeFromAction(a) ==
    /\ fn = NoFn
    /\ fn' = [op |-> "usize_from", arg |-> a, res |-> IndexFromAction(a)]
    /\ UNCHANGED <<vars, mapVars, robotVars>>

\* Action::from(i)
ActionFromUsize(i) ==
    /\ fn = NoFn
    /\ fn' = [op |-> "action_from", arg |-> i, res |-> ActionFromIndex(i)]
    /\ UNCHANGED <<vars, mapVars, robotVars>>

\* Robot::max_action_for_percept on the row actions, choice_index the draw
MaxActionForRow(actions, choice_index) ==
    LET found == MaxOfRow(actions)
        candidates == found[1]
        max_score == found[2]
    IN  /\ fn = NoFn
        /\ choice_index < Len(candidates)
        /\ fn' = [op |-> "max_action_for_percept", arg |-> actions,
                  res |-> <<ActionFromIndex(candidates[choice_index + 1]), max_score>>]
        /\ UNCHANGED <<vars, mapVars, robotVars>>

NextFn ==
    \/ \E a \in Action : UsizeFromAction(a)
    \/ \E i \in Indices : ActionFromUsize(i)
    \/ \E actions \in Rows, choice_index \in 0 .. number_of_actions - 1 :
          MaxActionForRow(actions, choice_index)

SpecFn == Init /\ [][NextFn]_allVars

-----------------------------------------------------------------------------
(* Properties of the Environment, checked under Spec.                      *)

\* The content an observer expects at xy: the stored cell, Wall off the grid.
CellAt(g, xy, d) == IF xy \in Coords(d) THEN g[xy[1]][xy[2]] ELSE "Wall"

ExpectedPercept(g, xy, d) ==
    [current |-> CellAt(g, xy, d),
     north   |-> CellAt(g, Neighbour("MoveNorth", xy), d),
     south   |-> CellAt(g, Neighbour("MoveSouth", xy), d),
     east    |-> CellAt(g, Neighbour("MoveEast", xy), d),
     west    |-> CellAt(g, Neighbour("MoveWest", xy), d)]

\* C1: the percept create_percept returns holds the robot's cell in current
\* and the cells at (x+1,y), (x-1,y), (x,y+1), (x,y-1) in north, south, east,
\* west, with Wall exactly for the neighbours off the grid.
C1_PerceptReadsNeighbours ==
    p # NoPercept => p = ExpectedPercept(grid, robot_coordinates, grid_dimension)

AttemptDone == pc = "ready" /\ call.op = "transition_state" /\ call.paired

\* C2: an attempt (calculate_reward, then transition_state) to move across a
\* grid edge returns -5, leaves the position where it was and adds exactly 1
\* to crash_count; k such attempts in a row add exactly k.
C2_CrashAttempt ==
    AttemptDone /\ CrossesEdge(call.a, pre.coords, grid_dimension)
        => /\ call.ret = -5
           /\ robot_coordinates = pre.coords
           /\ crash_count = pre.crash_count + 1
           /\ streak.a = call.a
           /\ streak.n >= 1
           /\ crash_count = streak.cc0 + streak.n

C2_Witness ==
    /\ AttemptDone
    /\ CrossesEdge(call.a, pre.coords, grid_dimension)
    /\ streak.n >= 2

\* C3: the robot never leaves the grid, and its position changes only in a
\* transition_state of a movement action, to the next cell in that direction.
C3_PositionInGrid ==
    /\ [](pc = "ready" => robot_coordinates \in Coords(grid_dimension))
    /\ [][pc = "ready" /\ robot_coordinates' # robot_coordinates
            => /\ call'.op = "transition_state"
               /\ call'.a \in Moves
               /\ robot_coordinates' = Neighbour(call'.a, robot_coordinates)]_allVars

C3_Witness ==
    /\ AttemptDone
    /\ call.a \in Moves
    /\ robot_coordinates # pre.coords
    /\ crash_count >= 1

\* C5: the cans on the grid are the cans placed at construction less the
\* pickups made on a Can cell, and their number never grows.
C5_CansPlacedLessPickups ==
    /\ [](pc = "ready" => count_cans(grid) = n_placed - n_pickups)
    /\ [][pc = "ready" => count_cans(grid') <= count_cans(grid)]_allVars

C5_Witness == pc = "ready" /\ n_pickups >= 2 /\ count_cans(grid) = 0

\* C6: a pickup attempt on a Can cell returns +10 and empties the cell; the
\* pickup attempt right after it returns -1 and changes nothing.
C6_PickupThenNoop ==
    LET x == robot_coordinates[1]
        y == robot_coordinates[2]
    IN  AttemptDone /\ call.a = "PickUpCan"
            => /\ pre.grid[pre.coords[1]][pre.coords[2]] = "Can"
                    => /\ call.ret = 10
                       /\ robot_coordinates = pre.coords
                       /\ grid[x][y] = "Empty"
               /\ streak.n = 2 /\ streak.prev_cell = "Can"
                    => /\ call.ret = -1
                       /\ grid = pre.grid
                       /\ robot_coordinates = pre.coords
                       /\ crash_count = pre.crash_count

C6_Witness ==
    /\ AttemptDone
    /\ call.a = "PickUpCan"
    /\ streak.n = 2
    /\ streak.prev_cell = "Can"

\* C7: new_randomized with more cans than cells fails at construction; it
\* never enters the placement loop of random_grid.
C7_TooManyCansFailsFast ==
    pc = "random_grid" => number_of_cans <= rg_dimension * rg_dimension

\* The placement loop with no free cell left: every draw is a resample and
\* the loop condition stays true.
SearchingInVain ==
    /\ pc = "random_grid"
    /\ cans_assigned < number_of_cans
    /\ already_assigned = Coords(rg_dimension)

\* C8: the grid random_grid returns holds exactly number_of_cans Can cells,
\* at distinct coordinates, and Empty elsewhere; a resample never counts.
C8_ExactlyCanCount ==
    /\ [](call.op = "new_randomized"
            => /\ count_cans(grid) = initial_number_of_cans
               /\ \A xy \in Coords(grid_dimension) : grid[xy[1]][xy[2]] \in {"Can", "Empty"})
    /\ [][pc = "random_grid" /\ pc' = "ready"
            => /\ Cardinality(already_assigned) = number_of_cans
               /\ \A xy \in Coords(grid_dimension') :
                     grid'[xy[1]][xy[2]] = IF xy \in already_assigned THEN "Can" ELSE "Empty"]_allVars
    /\ [][pc = "random_grid" /\ pc' = "random_grid" /\ rg_grid' = rg_grid
            => cans_assigned' = cans_assigned]_allVars

C8_Witness ==
    /\ call.op = "new_randomized"
    /\ initial_number_of_cans = MaxCans
    /\ grid_dimension > 1

\* C10: crash_count is the number of transition_state calls whose move met a
\* grid edge, however often calculate_reward was called: starting from 0, it
\* grows by 1 in each such transition_state call and in no other call.
C10_CrashCountCountsSteps ==
    [][pc = "ready"
         => crash_count' = IF /\ call'.op = "transition_state"
                              /\ p' = NoPercept
                              /\ CrossesEdge(call'.a, robot_coordinates, grid_dimension)
                           THEN crash_count + 1
                           ELSE crash_count]_allVars

\* C11: for a movement action calculate_reward returns -5 exactly when the
\* next cell in the direction of that action is off the grid, which is exactly
\* when transition_state leaves the position where it was, and 0 otherwise.
C11_CrashRewardPerDirection ==
    /\ pc = "ready" /\ call.op = "calculate_reward" /\ call.a \in Moves
          => call.ret = IF Neighbour(call.a, robot_coordinates) \in Coords(grid_dimension)
                        THEN 0 ELSE -5
    /\ AttemptDone /\ call.a \in Moves
          => /\ call.ret \in {0, -5}
             /\ call.ret = -5 <=> robot_coordinates = pre.coords

C11_Witness ==
    /\ AttemptDone
    /\ call.a = "MoveSouth"
    /\ call.ret = 0
    /\ robot_coordinates # pre.coords
    /\ crash_count >= 1

\* C17: no stored cell is ever Wall, so the current field of a percept is
\* never Wall.
C17_NoWallStored ==
    /\ pc = "random_grid"
          => \A xy \in Coords(rg_dimension) : rg_grid[xy[1]][xy[2]] \in {"Empty", "Can"}
    /\ pc = "ready"
          => /\ \A xy \in Coords(grid_dimension) : grid[xy[1]][xy[2]] \in {"Empty", "Can"}
             /\ p # NoPercept => p.current \in {"Empty", "Can"}

C17_Witness ==
    /\ pc = "ready"
    /\ n_placed >= 1
    /\ n_pickups >= 1
    /\ p # NoPercept
    /\ p.current = "Empty"

MoveField(a) ==
    CASE a = "MoveNorth" -> "north"
      [] a = "MoveSouth" -> "south"
      [] a = "MoveEast"  -> "east"
      [] a = "MoveWest"  -> "west"

\* C19: a percept shows Wall in a direction exactly when calculate_reward
\* returns -5 for the move in that direction.
C19_WallIffCrash ==
    p # NoPercept
        => \A a \in Moves :
              p[MoveField(a)] = "Wall"
                  <=> RewardValue(a, grid, robot_coordinates, grid_dimension) = -5

C19_Witness ==
    /\ p # NoPercept
    /\ grid_dimension > 1
    /\ p.east = "Wall"
    /\ p.north = "Can"
    /\ p.west # "Wall"

\* C20: a step changes only its own part: a move leaves every cell as it
\* was, a pickup leaves the position and every cell but the robot's.
C20_StepFrame ==
    [][pc = "ready" /\ pc' = "ready"
         => /\ robot_coordinates' # robot_coordinates => grid' = grid
            /\ call'.op = "transition_state" /\ call'.a \in Moves /\ p' = NoPercept
                  => grid' = grid
            /\ grid' # grid
                  => /\ call'.op = "transition_state"
                     /\ call'.a = "PickUpCan"
                     /\ robot_coordinates' = robot_coordinates
                     /\ \A xy \in Coords(grid_dimension) :
                           xy # robot_coordinates
                               => grid'[xy[1]][xy[2]] = grid[xy[1]][xy[2]]]_allVars

C20_Witness ==
    /\ AttemptDone
    /\ call.a \in Moves
    /\ robot_coordinates # pre.coords
    /\ pre.grid[pre.coords[1]][pre.coords[2]] = "Can"
    /\ grid = pre.grid

-----------------------------------------------------------------------------
(* Properties of the Robot, checked under SpecRobot.                       *)

\* C4: an update made with a pending choice leaves the agent idle, and an
\* update that directly follows another update leaves q_matrix as it was.
C4_ChoiceConsumedOnce ==
    /\ [](r_call.op = "reward" /\ r_call.wrote => previous_choice = None)
    /\ [][r_call.op = "reward" /\ r_call'.op = "reward" => q_matrix' = q_matrix]_allVars

\* The second part of C4 alone: an update that directly follows an update
\* leaves q_matrix as it was.
C4_SecondUpdateIsNoop ==
    [][r_call.op = "reward" /\ r_call'.op = "reward" => q_matrix' = q_matrix]_allVars

\* C12: an update writes only the entry of q_matrix at the percept given to,
\* and the action returned by, the last select_action; every other entry of
\* the table is as it was, and with no select_action yet the whole table is.
C12_RewardWritesOnlyChosen ==
    [][r_call'.op = "reward" =>
          IF last_select = None
          THEN q_matrix' = q_matrix
          ELSE LET i == percept_map[last_select[1]]
                   j == IndexFromAction(last_select[2])
               IN  q_matrix' = [q_matrix EXCEPT ![i][j] = q_matrix'[i][j]]]_allVars

\* two updates, each after a select_action, have written two rows
C12_Witness ==
    /\ r_call.op = "reward" /\ r_call.wrote /\ n_updates = 2
    /\ \E pt1 \in SomePercepts, pt2 \in SomePercepts \ {last_select[1]} :
          /\ pt1 = last_select[1]
          /\ \E j \in 0 .. number_of_actions - 1 : q_matrix[percept_map[pt1]][j] # 0
          /\ \E j \in 0 .. number_of_actions - 1 : q_matrix[percept_map[pt2]][j] # 0

\* C13: on a new Robot, before any select_action, no choice is pending, an
\* update leaves q_matrix and previous_choice as they were, and select_action
\* can be called with every percept and every draw r.
C13_FreshUpdateIsNoop ==
    /\ [](r_pc = "ready" /\ last_select = None =>
            /\ previous_choice = None
            /\ \A pt \in SomePercepts, r \in RDraws :
                  \E draw \in 0 .. 4 : ENABLED SelectAction(pt, r, draw))
    /\ [][last_select = None /\ r_call'.op = "reward" =>
            q_matrix' = q_matrix /\ previous_choice' = previous_choice]_allVars

\* a new Robot has been given an update
C13_Witness ==
    /\ r_call.op = "reward" /\ ~r_call.wrote
    /\ last_select = None /\ previous_choice = None /\ n_updates = 0

\* C15: with epsilon = 0, a select_action for a percept whose row of q_matrix
\* has one entry above all the others returns the action of that entry.
C15_GreedyPicksStrictMax ==
    r_call.op = "select_action" /\ epsilon = 0 =>
        LET row == q_matrix[percept_map[last_select[1]]]
        IN  \A j \in 0 .. number_of_actions - 1 :
              (\A k \in (0 .. number_of_actions - 1) \ {j} : row[j] > row[k])
                  => last_select[2] = ActionFromIndex(j)

\* select_action with epsilon = 0 has returned MoveEast, the one strict
\* maximum of a row
C15_Witness ==
    /\ r_call.op = "select_action" /\ epsilon = 0
    /\ last_select[2] = "MoveEast"
    /\ LET row == q_matrix[percept_map[last_select[1]]]
       IN  \A k \in {0, 1, 3, 4} : row[2] > row[k]

-----------------------------------------------------------------------------
(* Properties of the repeated update, checked under SpecRepeat.            *)

Abs(x) == IF x < 0 THEN 0 - x ELSE x

\* the entry of q_matrix a repeated update writes
RepeatedEntry ==
    q_matrix[percept_map[previous_choice[1]]][IndexFromAction(previous_choice[2])]

-----------------------------------------------------------------------------
(* Properties of generate_percept_map, checked under SpecMap.              *)

\* C9: the map generate_percept_map returns takes the 3^5 percepts one to
\* one onto 0 .. 242.
C9_PerceptMapBijection ==
    gm_loop = LoopDone
        => /\ DOMAIN out = AllPercepts
           /\ \A p1, p2 \in DOMAIN out : out[p1] = out[p2] => p1 = p2
           /\ {out[q] : q \in DOMAIN out} = 0 .. 242

C9_Witness == gm_loop = LoopDone /\ index = 243 /\ Cardinality(DOMAIN out) = 243

-----------------------------------------------------------------------------
(* Properties of the pure functions, checked under SpecFn.                 *)

RowMax(actions) ==
    CHOOSE v \in {actions[j] : j \in DOMAIN actions} :
        \A j \in DOMAIN actions : actions[j] <= v

Maximizers(actions) == {j \in DOMAIN actions : actions[j] = RowMax(actions)}

\* C14: the actions max_action_for_percept can return for a row are exactly
\* those of the indices that attain the row maximum, and the value it returns
\* is the row maximum.
C14_AllMaximizers ==
    fn.op = "max_action_for_percept"
        => LET candidates == MaxOfRow(fn.arg)[1]
           IN  /\ fn.res[2] = RowMax(fn.arg)
               /\ fn.res[1] \in {ActionFromIndex(j) : j \in Maximizers(fn.arg)}
               /\ {candidates[k] : k \in 1 .. Len(candidates)} = Maximizers(fn.arg)

C14_Witness ==
    /\ fn.op = "max_action_for_percept"
    /\ fn.arg[0] < RowMax(fn.arg)
    /\ Cardinality(Maximizers(fn.arg)) = 3
    /\ fn.res[1] = "PickUpCan"

\* C18: an action converted to its index and back is the same action, and
\* an index in 0 .. 4 converted to its action and back is the same index.
C18_ActionIndexRoundTrip ==
    /\ fn.op = "usize_from"
          => /\ fn.res \in 0 .. 4
             /\ ActionFromIndex(fn.res) = fn.arg
    /\ fn.op = "action_from" /\ fn.arg \in 0 .. 4
          => /\ fn.res \in Action
             /\ IndexFromAction(fn.res) = fn.arg

C18_Witness == fn.op = "action_from" /\ fn.arg = 3 /\ fn.res = "MoveWest"

====
